---- MODULE Spec2Model ----
(***************************************************************************)
(* Model of the robot rate calculator (src/src/lib.rs, src/src/main.rs).   *)
(*                                                                         *)
(* A NaiveDateTime is an integer number of ticks since a Monday 00:00; one *)
(* tick is thirty minutes.  A NaiveTime is the number of ticks since       *)
(* midnight.  Weekday 0 is Monday, 6 is Sunday.  Option<T> is a sequence   *)
(* of length at most one: <<>> is None and <<x>> is Some(x).  Vec indices  *)
(* are 0-based as in the source (element i of a Vec is seq[i + 1]).        *)
(***************************************************************************)
EXTENDS Integers, Sequences, FiniteSets, TLC

VARIABLES
    t,                  \* the RobotWorkTime value: start, end, time_range
    pc,                 \* "new": RobotWorkTime built; "iter": into_iter returned; "panic": an unwrap failed
    cur,                \* RobotWorkTimeIterator.cur
    end,                \* RobotWorkTimeIterator.end
    time_ranges_iter,   \* RobotWorkTimeIterator.time_ranges_iter
    break_iter,         \* RobotWorkTimeIterator.break_iter
    breaking,           \* RobotWorkTimeIterator.breaking
    is_finish,          \* RobotWorkTimeIterator.is_finish
    out,                \* the elements returned so far by RobotWorkTimeIterator::next
    ret                 \* the value returned by the latest call of next (None before any call)

vars == <<t, pc, cur, end, time_ranges_iter, break_iter, breaking, is_finish, out, ret>>

iter_vars == <<cur, end, time_ranges_iter, break_iter, breaking, is_finish>>

----------------------------------------------------------------------------
(* Bounds of the explored inputs *)

MaxSpan == 42           \* longest activity, in ticks (21 hours)
MaxStartOffset == 7     \* start times range over this many ticks after 14:00
MaxPulls == 16          \* cap on the number of elements a run may return

----------------------------------------------------------------------------
(* chrono *)

Hours(h) == 2 * h

Days(d) == Hours(24 * d)

time(dt) == dt % Days(1)

date(dt) == dt \div Days(1)

weekday(dt) == date(dt) % 7

and_time(d, tm) == d * Days(1) + tm

Mon == 0
Tue == 1
Wed == 2
Thu == 3
Fri == 4
Sat == 5
Sun == 6

\* body(x), with x evaluated once
Let(x, body(_)) == CHOOSE r \in {body(v) : v \in {x}} : TRUE

Min(S) == CHOOSE x \in S : \A y \in S : x <= y

Max(S) == CHOOSE x \in S : \A y \in S : x >= y

----------------------------------------------------------------------------
(* TimeRange *)

TimeRange_new(range, valid_weekdays) ==
    [start |-> range[1], end |-> range[2], valid_weekdays |-> valid_weekdays]

\* contains with the end of the window included
contains_end_inclusive(self, datetime) ==
    /\ weekday(datetime) \in self.valid_weekdays
    /\ LET tm == time(datetime)
       IN  \/ (self.start < self.end /\ tm >= self.start /\ tm <= self.end)
           \/ (self.start > self.end /\ (tm >= self.start \/ tm <= self.end))

contains(self, datetime) ==
    /\ weekday(datetime) \in self.valid_weekdays
    /\ LET tm == time(datetime)
       IN  \/ (self.start < self.end /\ tm >= self.start /\ tm < self.end)
           \/ (self.start > self.end /\ (tm >= self.start \/ tm < self.end))

\* the while loop with line 60 missing: only s is shifted
RECURSIVE relocate_start_only(_, _, _)
relocate_start_only(self, s, e) ==
    IF weekday(s) \in self.valid_weekdays
    THEN <<s, e>>
    ELSE relocate_start_only(self, s + Days(1), e)

\* the while loop of get_next_range_start_at: shift (s, e) a day at a time
RECURSIVE relocate(_, _, _)
relocate(self, s, e) ==
    IF weekday(s) \in self.valid_weekdays
    THEN <<s, e>>
    ELSE relocate(self, s + Days(1), e + Days(1))

\* the candidate with a wrapping window's occurrence run to `end` of the
\* next day instead of being cut at midnight
range_at_wrap_to_end(self, datetime) ==
    LET tm == time(datetime)
        d == date(datetime)
    IN  IF self.start < self.end
        THEN IF tm >= self.start /\ tm < self.end
             THEN << <<datetime, and_time(d, self.end)>> >>
             ELSE <<>>
        ELSE IF tm < self.start /\ tm > self.end
             THEN <<>>
             ELSE IF tm >= self.start
                  THEN << <<datetime, and_time(d, self.end) + Days(1)>> >>
                  ELSE IF tm < self.end
                       THEN << <<datetime, and_time(d, self.end)>> >>
                       ELSE <<>>

\* the candidate before the weekday relocation
range_at(self, datetime) ==
    LET tm == time(datetime)
        d == date(datetime)
    IN  IF self.start < self.end
        THEN IF tm >= self.start /\ tm < self.end
             THEN << <<datetime, and_time(d, self.end)>> >>
             ELSE <<>>
        ELSE IF tm < self.start /\ tm > self.end
             THEN <<>>
             ELSE IF tm >= self.start
                  THEN << <<datetime, and_time(d, 0) + Days(1)>> >>
                  ELSE IF tm < self.end
                       THEN << <<datetime, and_time(d, self.end)>> >>
                       ELSE <<>>

get_next_range_start_at(self, datetime) ==
    LET ans == range_at(self, datetime)
    IN  IF ans = <<>>
        THEN <<>>
        ELSE << relocate(self, ans[1][1], ans[1][2]) >>

----------------------------------------------------------------------------
(* BreakIterator *)

\* BreakIterator::next with the cursor left at work_end (the rest not added)
BreakIterator_next_cursor_at_work_end(self) ==
    LET work_end == self.start + self.work_duration
        r == <<work_end, work_end + self.rest_duration>>
    IN  [item |-> r, it |-> [self EXCEPT !.start = work_end]]

\* returns the item and the iterator after the call
BreakIterator_next(self) ==
    LET work_end == self.start + self.work_duration
        r == <<work_end, work_end + self.rest_duration>>
    IN  [item |-> r, it |-> [self EXCEPT !.start = work_end + self.rest_duration]]

----------------------------------------------------------------------------
(* TimeRangesIterator *)

\* the scan `for (idx, range) in ... { if range.contains(dt) { next_idx = Some(idx) } }`:
\* the last index whose range contains dt
find_idx(time_ranges, dt) ==
    LET hits == {i \in 1..Len(time_ranges) : contains(time_ranges[i], dt)}
    IN  IF hits = {} THEN <<>> ELSE << Max(hits) - 1 >>

\* TimeRangesIterator::new falling back to window 0 when no window contains start
TimeRangesIterator_new_or_first(start, time_ranges) ==
    LET next_idx == find_idx(time_ranges, start)
    IN  IF next_idx = <<>>
        THEN << [cur |-> <<start, 0>>, time_ranges |-> time_ranges] >>
        ELSE << [cur |-> <<start, next_idx[1]>>, time_ranges |-> time_ranges] >>

TimeRangesIterator_new(start, time_ranges) ==
    LET next_idx == find_idx(time_ranges, start)
    IN  IF next_idx = <<>>
        THEN <<>>
        ELSE << [cur |-> <<start, next_idx[1]>>, time_ranges |-> time_ranges] >>

\* min_by_key keyed on the start of each occurrence instead of its end
next_range_starts(time_ranges, date_time) ==
    {c[1][1] : c \in {get_next_range_start_at(time_ranges[i], date_time) :
                         i \in 1..Len(time_ranges)} \ {<<>>}}

\* filter_map(get_next_range_start_at) followed by the key of min_by_key:
\* the ends of the occurrences the windows report at date_time
next_range_ends(time_ranges, date_time) ==
    {c[1][2] : c \in {get_next_range_start_at(time_ranges[i], date_time) :
                         i \in 1..Len(time_ranges)} \ {<<>>}}

\* <<>> when one of the two unwraps of next panics, else the item returned
\* and the iterator after the call
TimeRangesIterator_next(self) ==
    Let(self, LAMBDA s :
        Let(next_range_ends(s.time_ranges, s.cur[1]), LAMBDA ends :
            IF ends = {}
            THEN <<>>
            ELSE Let(Min(ends), LAMBDA next_dt :
                     Let(find_idx(s.time_ranges, next_dt), LAMBDA next_idx :
                         IF next_idx = <<>>
                         THEN <<>>
                         ELSE << [item |-> s.cur,
                                  it |-> [s EXCEPT !.cur = <<next_dt, next_idx[1]>>]] >>))))

----------------------------------------------------------------------------
(* Inputs *)

Weekdays == {Mon, Tue, Wed, Thu, Fri}

Weekend == {Sat, Sun}

\* (start, end) of the day band; the night band is (end, start)
ClockPairs ==
    { <<Hours(7), Hours(23)>>,
      <<Hours(7), Hours(23) + 1>>,
      <<Hours(3), Hours(15)>> }

\* the four windows main.rs builds from a document
Scheme(wd, we) ==
    << TimeRange_new(<<wd[1], wd[2]>>, Weekdays),
       TimeRange_new(<<wd[2], wd[1]>>, Weekdays),
       TimeRange_new(<<we[1], we[2]>>, Weekend),
       TimeRange_new(<<we[2], we[1]>>, Weekend) >>

Schemes == { Scheme(wd, we) : wd \in ClockPairs, we \in ClockPairs }

StartDates == {Fri, Sun}

Starts == { and_time(d, Hours(14) + o) : d \in StartDates, o \in 0..MaxStartOffset }

RobotWorkTime_new(start, e, time_range) ==
    [start |-> start, end |-> e, time_range |-> time_range]

----------------------------------------------------------------------------
(* RobotWorkTime and RobotWorkTimeIterator *)

Init ==
    /\ \E s \in Starts : \E span \in (0 - 2)..MaxSpan : \E sch \in Schemes :
           t = RobotWorkTime_new(s, s + span, sch)
    /\ pc = "new"
    /\ cur = <<0, <<>>>>
    /\ end = 0
    /\ time_ranges_iter = [cur |-> <<0, 0>>, time_ranges |-> <<>>]
    /\ break_iter = [start |-> 0, work_duration |-> 0, rest_duration |-> 0]
    /\ breaking = <<>>
    /\ is_finish = FALSE
    /\ out = <<>>
    /\ ret = <<>>

\* the iterator value the variables hold
Self ==
    [cur |-> cur, end |-> end, time_ranges_iter |-> time_ranges_iter,
     break_iter |-> break_iter, breaking |-> breaking, is_finish |-> is_finish]

\* into_iter: <<>> when one of its two unwraps panics, else the iterator built
RobotWorkTime_into_iter(self) ==
    LET made == TimeRangesIterator_new(self.start, self.time_range)
    IN  IF made = <<>>
        THEN <<>>
        ELSE LET first == TimeRangesIterator_next(made[1])
             IN  IF first = <<>>
                 THEN <<>>
                 ELSE << [cur |-> <<first[1].item[1], <<first[1].item[2]>> >>,
                          end |-> self.end,
                          time_ranges_iter |-> first[1].it,
                          break_iter |-> [start |-> self.start,
                                          work_duration |-> Hours(8),
                                          rest_duration |-> Hours(1)],
                          breaking |-> <<>>,
                          is_finish |-> FALSE] >>

\* line 186 with > for >=
reached_end_strict(instant, e) == instant > e

\* line 186 with == for >=
reached_end_exact(instant, e) == instant = e

\* line 186
reached_end(instant, e) == instant >= e

\* line 194
absorbs(next_time_seg, break_end) == next_time_seg <= break_end

\* line 208 with <= for <
transition_first_or_tie(next_time_seg, break_begin) == next_time_seg <= break_begin

\* line 208
transition_first(next_time_seg, break_begin) == next_time_seg < break_begin

\* The outcome of one call of RobotWorkTimeIterator::next on self: the
\* iterator after the call, the value returned (None or Some(element)), and
\* whether an unwrap panicked.

\* lines 191-200 with the pending-rest record read but not taken
next_breaking_keeps_record(self) ==
    LET break_end == self.breaking[1][1]
        end_status == self.breaking[1][2]
        peek == TimeRangesIterator_next(self.time_ranges_iter)
    IN  IF peek = <<>>
        THEN [it |-> self, ret |-> <<>>, panic |-> TRUE]
        ELSE LET next_time_seg == peek[1].item[1]
                 next_status == peek[1].item[2]
             IN  IF absorbs(next_time_seg, break_end)
                 THEN [it |-> [self EXCEPT !.cur = <<break_end, <<next_status>> >>,
                                           !.time_ranges_iter = peek[1].it],
                       ret |-> <<self.cur>>, panic |-> FALSE]
                 ELSE [it |-> [self EXCEPT !.cur = <<break_end, end_status>>],
                       ret |-> <<self.cur>>, panic |-> FALSE]

\* lines 191-200: a rest is pending
next_breaking(self) ==
    LET break_end == self.breaking[1][1]
        end_status == self.breaking[1][2]
        taken == [self EXCEPT !.breaking = <<>>]
        peek == TimeRangesIterator_next(self.time_ranges_iter)
    IN  IF peek = <<>>
        THEN [it |-> taken, ret |-> <<>>, panic |-> TRUE]
        ELSE LET next_time_seg == peek[1].item[1]
                 next_status == peek[1].item[2]
             IN  IF absorbs(next_time_seg, break_end)
                 THEN [it |-> [taken EXCEPT !.cur = <<break_end, <<next_status>> >>,
                                            !.time_ranges_iter = peek[1].it],
                       ret |-> <<self.cur>>, panic |-> FALSE]
                 ELSE [it |-> [taken EXCEPT !.cur = <<break_end, end_status>>],
                       ret |-> <<self.cur>>, panic |-> FALSE]

\* lines 202-217 with both peeks made on the iterators themselves instead of
\* on clones
next_working_peek_in_place(self) ==
    LET peek == TimeRangesIterator_next(self.time_ranges_iter)
        brk == BreakIterator_next(self.break_iter)
    IN  IF peek = <<>>
        THEN [it |-> self, ret |-> <<>>, panic |-> TRUE]
        ELSE LET next_time_seg == peek[1].item[1]
                 next_status == peek[1].item[2]
                 break_begin == brk.item[1]
                 break_end == brk.item[2]
                 moved == [self EXCEPT !.time_ranges_iter = peek[1].it,
                                       !.break_iter = brk.it]
             IN  IF transition_first(next_time_seg, break_begin)
                 THEN [it |-> [moved EXCEPT !.cur = <<next_time_seg, <<next_status>> >>],
                       ret |-> <<self.cur>>, panic |-> FALSE]
                 ELSE [it |-> [moved EXCEPT !.cur = <<break_begin, <<>>>>,
                                            !.breaking = << <<break_end, self.cur[2]>> >>],
                       ret |-> <<self.cur>>, panic |-> FALSE]

\* lines 202-217: no rest is pending
next_working(self) ==
    LET peek == TimeRangesIterator_next(self.time_ranges_iter)
        brk == BreakIterator_next(self.break_iter)
    IN  IF peek = <<>>
        THEN [it |-> self, ret |-> <<>>, panic |-> TRUE]
        ELSE LET next_time_seg == peek[1].item[1]
                 next_status == peek[1].item[2]
                 break_begin == brk.item[1]
                 break_end == brk.item[2]
             IN  IF transition_first(next_time_seg, break_begin)
                 THEN [it |-> [self EXCEPT !.cur = <<next_time_seg, <<next_status>> >>,
                                           !.time_ranges_iter = peek[1].it],
                       ret |-> <<self.cur>>, panic |-> FALSE]
                 ELSE [it |-> [self EXCEPT !.cur = <<break_begin, <<>>>>,
                                           !.breaking = << <<break_end, self.cur[2]>> >>,
                                           !.break_iter = brk.it],
                       ret |-> <<self.cur>>, panic |-> FALSE]

\* lines 183-218
RobotWorkTimeIterator_next(self) ==
    IF self.is_finish
    THEN [it |-> self, ret |-> <<>>, panic |-> FALSE]
    ELSE IF reached_end(self.cur[1], self.end)
         THEN [it |-> [self EXCEPT !.is_finish = TRUE],
               ret |-> << <<self.end, <<>>>> >>, panic |-> FALSE]
         ELSE IF self.breaking # <<>>
              THEN next_breaking(self)
              ELSE next_working(self)

\* the variables after a call with outcome r
Returns(r) ==
    /\ pc' = IF r.panic THEN "panic" ELSE pc
    /\ cur' = r.it.cur
    /\ end' = r.it.end
    /\ time_ranges_iter' = r.it.time_ranges_iter
    /\ break_iter' = r.it.break_iter
    /\ breaking' = r.it.breaking
    /\ is_finish' = r.it.is_finish
    /\ ret' = IF r.panic THEN ret ELSE r.ret
    /\ out' = IF r.panic \/ r.ret = <<>> THEN out ELSE Append(out, r.ret[1])
    /\ UNCHANGED t

into_iter ==
    /\ pc = "new"
    /\ \E made \in {RobotWorkTime_into_iter(t)} :
           IF made = <<>>
           THEN pc' = "panic" /\ UNCHANGED iter_vars
           ELSE /\ pc' = "iter"
                /\ cur' = made[1].cur
                /\ end' = made[1].end
                /\ time_ranges_iter' = made[1].time_ranges_iter
                /\ break_iter' = made[1].break_iter
                /\ breaking' = made[1].breaking
                /\ is_finish' = made[1].is_finish
    /\ UNCHANGED <<t, out, ret>>

\* next, called on a finished iterator (line 185)
next_exhausted ==
    /\ pc = "iter"
    /\ is_finish
    /\ \E r \in {RobotWorkTimeIterator_next(Self)} : Returns(r)

\* next, when the pending element is at or past end (lines 186-189)
next_finish ==
    /\ pc = "iter"
    /\ ~is_finish
    /\ reached_end(cur[1], end)
    /\ \E r \in {RobotWorkTimeIterator_next(Self)} : Returns(r)

\* next, when a rest is pending (lines 191-200)
next_break_end ==
    /\ pc = "iter"
    /\ ~is_finish
    /\ ~reached_end(cur[1], end)
    /\ breaking # <<>>
    /\ Len(out) < MaxPulls
    /\ \E r \in {RobotWorkTimeIterator_next(Self)} : Returns(r)

\* next, when no rest is pending (lines 202-217)
next_work ==
    /\ pc = "iter"
    /\ ~is_finish
    /\ ~reached_end(cur[1], end)
    /\ breaking = <<>>
    /\ Len(out) < MaxPulls
    /\ \E r \in {RobotWorkTimeIterator_next(Self)} : Returns(r)

Next ==
    \/ into_iter
    \/ next_exhausted
    \/ next_finish
    \/ next_break_end
    \/ next_work

Spec == Init /\ [][Next]_vars

\* the consumer keeps pulling
FairSpec == Spec /\ WF_vars(Next)

----------------------------------------------------------------------------
(* The aggregation of lib.rs integration_test_2 / main.rs robot *)

\* Duration::num_minutes of a number of ticks
num_minutes(d) == 30 * d

\* the fold over zip(iter, once(_).chain(iter)).skip(1): every pair of
\* consecutive elements (s, status), (e, _) adds e - s to acc[status]
RECURSIVE fold_from(_, _, _)
fold_from(o, i, idx) ==
    IF i >= Len(o)
    THEN 0
    ELSE (IF o[i][2] = <<idx>> THEN o[i + 1][1] - o[i][1] ELSE 0) + fold_from(o, i + 1, idx)

fold(o) == [idx \in 0..3 |-> fold_from(o, 1, idx)]

\* rates of integration_test_2, by window index
Rates == <<20, 25, 30, 35>>

owed(o) ==
    num_minutes(fold(o)[0]) * Rates[1] + num_minutes(fold(o)[1]) * Rates[2]
        + num_minutes(fold(o)[2]) * Rates[3] + num_minutes(fold(o)[3]) * Rates[4]

----------------------------------------------------------------------------
(* Vocabulary of the properties *)

Done == pc = "iter" /\ is_finish

\* positions of out holding a Resting element: label None, and not the
\* final element returned by the finishing call
RestIdx == {i \in 1..Len(out) : out[i][2] = <<>> /\ ~(is_finish /\ i = Len(out))}

\* start of the k-th rest period of the activity, k = 0, 1, ...
RestStart(k) == t.start + Hours(8) + k * Hours(9)

\* x lies in some rest period [RestStart(k), RestStart(k) + 1h)
InRest(x) ==
    \E k \in 0..((MaxSpan + 2) \div Hours(9)) :
        RestStart(k) <= x /\ x < RestStart(k) + Hours(1)

\* the element at position i was produced by a rate-window transition
\* (it is a Working element and does not resume from a rest)
IsTransitionElement(i) ==
    /\ i > 1
    /\ out[i][2] # <<>>
    /\ (i - 1) \notin RestIdx

----------------------------------------------------------------------------
(* Properties *)

\* C1 (as stated): partition coverage.  When the run of an activity with
\* start < end has finished, the first element is at start, the last at end,
\* and every instant of [start, end) lies in exactly one of the half-open
\* intervals between consecutive elements.
C1_PartitionCoverage ==
    (Done /\ t.start < t.end) =>
        /\ out[1][1] = t.start
        /\ out[Len(out)][1] = t.end
        /\ \A x \in t.start..(t.end - 1) :
               Cardinality({i \in 1..(Len(out) - 1) :
                               out[i][1] <= x /\ x < out[i + 1][1]}) = 1

\* C2 (as stated): label correctness.  The window named by a Working
\* element contains the element's instant and every instant up to the next
\* element, and the first element of an activity with start < end is
\* (start, the window containing start).
C2_LabelCorrectness ==
    pc = "iter" =>
        /\ \A i \in 1..(Len(out) - 1) :
               out[i][2] # <<>> =>
                   /\ contains(t.time_range[out[i][2][1] + 1], out[i][1])
                   /\ \A x \in out[i][1]..(out[i + 1][1] - 1) :
                          contains(t.time_range[out[i][2][1] + 1], x)
        /\ (t.start < t.end /\ out # <<>>) =>
               /\ out[1][1] = t.start
               /\ out[1][2] # <<>>
               /\ contains(t.time_range[out[1][2][1] + 1], t.start)

\* C3 (as stated): strict ordering.  The instants of consecutive elements
\* are strictly increasing.
C3_StrictOrdering ==
    \A i \in 1..(Len(out) - 1) : out[i][1] < out[i + 1][1]

\* C4: rest periodicity.  The k-th Resting element is at start + 8h + k*9h;
\* a finished run holds a Resting element for every k whose rest start is
\* before end; the element after a Resting element is one hour later, or at
\* end if end comes first.
C4_RestPeriodicity ==
    pc = "iter" =>
        /\ \A i \in RestIdx :
               out[i][1] = RestStart(Cardinality({j \in RestIdx : j < i}))
        /\ is_finish =>
               \A k \in 0..((MaxSpan + 2) \div Hours(9)) :
                   RestStart(k) < t.end => Cardinality(RestIdx) > k
        /\ \A i \in RestIdx :
               i < Len(out) =>
                   out[i + 1][1] = IF out[i][1] + Hours(1) < t.end
                                   THEN out[i][1] + Hours(1)
                                   ELSE t.end

\* C4 witness: a finished run with two rests, the second one resumed
C4_Witness ==
    /\ Done
    /\ Cardinality(RestIdx) >= 2
    /\ \E i \in RestIdx : i + 1 < Len(out) /\ out[i][1] = RestStart(1)

\* C5: rest wins ties.  A step taken while no rest is pending makes the next
\* rate transition the pending element only if the transition is strictly
\* before the next rest start; otherwise the pending element becomes
\* (rest_start, Resting) and the rate timeline is not advanced.
C5_RestWinsTies ==
    [][ ( /\ pc = "iter" /\ pc' = "iter"
          /\ ~is_finish
          /\ cur[1] < end
          /\ breaking = <<>>
          /\ out' # out )
        => LET transition == time_ranges_iter.cur
               rest_start == break_iter.start + Hours(8)
           IN  IF transition[1] < rest_start
               THEN /\ cur' = <<transition[1], <<transition[2]>> >>
                    /\ breaking' = <<>>
               ELSE /\ cur' = <<rest_start, <<>>>>
                    /\ breaking' # <<>>
                    /\ time_ranges_iter' = time_ranges_iter
      ]_vars

\* C5 witness: a rest was entered at the very instant of the next transition
C5_Witness ==
    /\ pc = "iter"
    /\ breaking # <<>>
    /\ cur[2] = <<>>
    /\ time_ranges_iter.cur[1] = cur[1]
    /\ cur[1] < end

\* C6 (as stated): absorption.  No transition element lies inside a rest
\* period (rest start and rest end included); the element at rest end names
\* the window that contains rest end; and when the window active at the
\* rest's start contains the whole rest, that window is the resumed label.
C6_Absorption ==
    pc = "iter" =>
        /\ \A i \in RestIdx : \A j \in 1..Len(out) :
               IsTransitionElement(j) =>
                   ~(out[i][1] <= out[j][1] /\ out[j][1] <= out[i][1] + Hours(1))
        /\ \A i \in RestIdx :
               (i < Len(out) /\ out[i + 1][2] # <<>>) =>
                   /\ contains(t.time_range[out[i + 1][2][1] + 1], out[i + 1][1])
                   /\ (\A x \in out[i - 1][1]..out[i + 1][1] :
                           contains(t.time_range[out[i - 1][2][1] + 1], x))
                          => out[i + 1][2] = out[i - 1][2]

\* C7: the activity boundary wins.  Every returned element but the last is
\* strictly before end; a finished run ends with (end, Finished), returned
\* once; a pending element at or after end is replaced by (end, Finished);
\* a call on a finished iterator returns None and changes no state.
C7_BoundaryWins ==
    /\ [](pc = "iter" =>
            /\ \A i \in 1..Len(out) : out[i][1] <= end
            /\ \A i \in 1..(Len(out) - 1) : out[i][1] < end
            /\ is_finish =>
                   /\ out # <<>>
                   /\ out[Len(out)] = <<end, <<>>>>
                   /\ end = t.end
            /\ ~is_finish => \A i \in 1..Len(out) : out[i][1] < end)
    /\ [][ /\ (pc = "iter" /\ is_finish) =>
                  /\ ret' = <<>>
                  /\ UNCHANGED <<t, pc, iter_vars, out>>
           /\ (pc = "iter" /\ ~is_finish /\ cur[1] >= end) =>
                  /\ is_finish'
                  /\ ret' = << <<end, <<>>>> >>
                  /\ out' = Append(out, <<end, <<>>>>)
       ]_vars

\* C7 witness: a pending element past end was replaced by (end, Finished),
\* and a later call returned None
C7_Witness ==
    /\ Done
    /\ ret = <<>>
    /\ cur[1] > end
    /\ Len(out) >= 4

\* C8: termination.  A consumer that keeps pulling reaches the Finished
\* element.
C8_Termination == <>Done

\* C8 witness: a finished run that returned rate transitions and rests
C8_Witness ==
    /\ Done
    /\ Len(out) >= 8
    /\ Cardinality(RestIdx) >= 2

\* minutes of [start, end) outside every rest period that window idx contains
WorkedMinutes(idx) ==
    num_minutes(Cardinality({x \in t.start..(t.end - 1) :
                                ~InRest(x) /\ contains(t.time_range[idx + 1], x)}))

\* C9 (as stated): aggregate correctness.  The fold over consecutive pairs
\* of a finished run gives, for each window, the minutes of [start, end)
\* outside the rest periods that the window contains, and the total owed is
\* the sum of those minutes times the rates.
C9_AggregateCorrectness ==
    Done =>
        /\ \A idx \in 0..3 : num_minutes(fold(out)[idx]) = WorkedMinutes(idx)
        /\ owed(out) = WorkedMinutes(0) * Rates[1] + WorkedMinutes(1) * Rates[2]
                         + WorkedMinutes(2) * Rates[3] + WorkedMinutes(3) * Rates[4]

RECURSIVE sum_durations(_, _)
sum_durations(o, i) ==
    IF i >= Len(o) THEN 0 ELSE (o[i + 1][1] - o[i][1]) + sum_durations(o, i + 1)

\* C10 (as stated): duration conservation.  For start <= end the durations
\* between consecutive elements of a finished run sum to end - start, and
\* none of them is negative.
C10_DurationConservation ==
    (Done /\ t.start <= t.end) =>
        /\ sum_durations(out, 1) = t.end - t.start
        /\ \A i \in 1..(Len(out) - 1) : out[i + 1][1] - out[i][1] >= 0


\* C11 (as stated): degenerate span.  When end < start the run returns one
\* element, (start, Finished), and every aggregate is zero; when end = start
\* it likewise returns only the Finished element.
C11_DegenerateSpanAtStart ==
    (Done /\ t.end <= t.start) =>
        /\ out = << <<t.start, <<>>>> >>
        /\ \A idx \in 0..3 : fold(out)[idx] = 0

\* C11 (amended): when end <= start the run returns exactly one element,
\* labelled Finished, whose instant is end, and every aggregate is zero.
C11_DegenerateSpan ==
    (pc = "iter" /\ t.end <= t.start) =>
        /\ Len(out) <= 1
        /\ \A i \in 1..Len(out) : out[i] = <<t.end, <<>>>>
        /\ (out # <<>>) = is_finish
        /\ \A idx \in 0..3 : fold(out)[idx] = 0 /\ owed(out) = 0

\* C11 witness: a finished run of an activity whose end is before its start
C11_Witness ==
    /\ Done
    /\ t.end < t.start
    /\ ret = <<>>


----------------------------------------------------------------------------
(* Window lists that need not cover the week *)

\* the windows of sch whose positions are in keep, in order
KeepWindows(sch, keep) ==
    [i \in 1..Cardinality(keep) |->
        sch[CHOOSE k \in keep : Cardinality({j \in keep : j < k}) = i - 1]]

AnySchemes == { KeepWindows(sch, keep) : sch \in Schemes, keep \in SUBSET (1..4) }

InitAny ==
    /\ \E s \in Starts : \E span \in (0 - 2)..MaxSpan : \E sch \in AnySchemes :
           t = RobotWorkTime_new(s, s + span, sch)
    /\ pc = "new"
    /\ cur = <<0, <<>>>>
    /\ end = 0
    /\ time_ranges_iter = [cur |-> <<0, 0>>, time_ranges |-> <<>>]
    /\ break_iter = [start |-> 0, work_duration |-> 0, rest_duration |-> 0]
    /\ breaking = <<>>
    /\ is_finish = FALSE
    /\ out = <<>>
    /\ ret = <<>>

SpecAny == InitAny /\ [][Next]_vars

\* some window of the activity contains its start
StartCovered == \E i \in 1..Len(t.time_range) : contains(t.time_range[i], t.start)

----------------------------------------------------------------------------
(* TimeRange on its own: one window and one instant, then one call *)

ClockTimes == {0, Hours(3), Hours(7), Hours(23), Hours(23) + 1}

WeekdaySets == {Weekdays, Weekend, {Wed}, {Mon, Sun}}

\* t.time_range holds the window, t.start the instant passed to the call
InitRange ==
    /\ \E s \in ClockTimes : \E e \in ClockTimes : \E days \in WeekdaySets :
       \E dt \in 0..(Days(7) - 1) :
           t = RobotWorkTime_new(dt, dt, << TimeRange_new(<<s, e>>, days) >>)
    /\ pc = "range"
    /\ cur = <<0, <<>>>>
    /\ end = 0
    /\ time_ranges_iter = [cur |-> <<0, 0>>, time_ranges |-> <<>>]
    /\ break_iter = [start |-> 0, work_duration |-> 0, rest_duration |-> 0]
    /\ breaking = <<>>
    /\ is_finish = FALSE
    /\ out = <<>>
    /\ ret = <<>>

\* a call of contains; ret holds the value returned
call_contains ==
    /\ pc = "range"
    /\ pc' = "contains"
    /\ ret' = << contains(t.time_range[1], t.start) >>
    /\ UNCHANGED <<t, iter_vars, out>>

\* a call of get_next_range_start_at; ret holds the candidate `ans` of
\* line 37 and the value returned
call_get_next_range_start_at ==
    /\ pc = "range"
    /\ pc' = "next_range"
    /\ ret' = << [ans |-> range_at(t.time_range[1], t.start),
                  returned |-> get_next_range_start_at(t.time_range[1], t.start)] >>
    /\ UNCHANGED <<t, iter_vars, out>>

NextRange == call_contains \/ call_get_next_range_start_at

SpecRange == InitRange /\ [][NextRange]_vars

\* the times of day a window covers, as the claim describes them
ClockSet(w) ==
    IF w.start < w.end
    THEN w.start..(w.end - 1)
    ELSE IF w.start > w.end
         THEN (w.start..(Days(1) - 1)) \cup (0..(w.end - 1))
         ELSE {}

\* C14: contains(instant) is true iff the instant's weekday is valid and its
\* time of day is in [start, end) when start < end, in [start, 24:00) or
\* [0:00, end) when start > end; it is false for every instant when
\* start = end.
C14_Contains ==
    pc = "contains" =>
        LET w == t.time_range[1]
        IN  /\ ret[1] = (/\ weekday(t.start) \in w.valid_weekdays
                         /\ time(t.start) \in ClockSet(w))
            /\ w.start = w.end => ret[1] = FALSE

\* C14 witness: a wrapping window holds an instant after midnight
C14_Witness ==
    /\ pc = "contains"
    /\ ret = <<TRUE>>
    /\ t.time_range[1].start > t.time_range[1].end
    /\ time(t.start) < t.time_range[1].end


\* C15 (as stated): get_next_range_start_at returns None exactly when the
\* time of day is outside the window; otherwise the candidate before the
\* weekday relocation is (instant, e), e being `end` of the same day, or
\* `end` of the next day when the window wraps and the time of day is at or
\* after start.
C15_CandidateEndsAtWindowEnd ==
    pc = "next_range" =>
        LET w == t.time_range[1]
            tm == time(t.start)
            d == date(t.start)
            ans == ret[1].ans
        IN  /\ (ans = <<>>) = (tm \notin ClockSet(w))
            /\ (ret[1].returned = <<>>) = (tm \notin ClockSet(w))
            /\ ans # <<>> =>
                   ans[1] = <<t.start,
                              IF w.start > w.end /\ tm >= w.start
                              THEN and_time(d + 1, w.end)
                              ELSE and_time(d, w.end)>>

\* C15 (amended): for start # end, None is returned exactly when the time of
\* day is outside the window (for start = end a candidate is returned for
\* every instant); the candidate is (instant, e), e being `end` of the same
\* day, or midnight at the end of the same day when start >= end and the
\* time of day is at or after start.
C15_CandidateCutAtMidnight ==
    pc = "next_range" =>
        LET w == t.time_range[1]
            tm == time(t.start)
            d == date(t.start)
            ans == ret[1].ans
        IN  /\ w.start # w.end => (ans = <<>>) = (tm \notin ClockSet(w))
            /\ w.start = w.end => ans # <<>>
            /\ (ret[1].returned = <<>>) = (ans = <<>>)
            /\ ans # <<>> =>
                   ans[1] = <<t.start,
                              IF w.start >= w.end /\ tm >= w.start
                              THEN and_time(d + 1, 0)
                              ELSE and_time(d, w.end)>>

\* C15 witness: a wrapping window asked at an instant before midnight
C15_Witness ==
    /\ pc = "next_range"
    /\ t.time_range[1].start > t.time_range[1].end
    /\ t.time_range[1].end > 0
    /\ time(t.start) >= t.time_range[1].start
    /\ ret[1].ans = << <<t.start, and_time(date(t.start) + 1, 0)>> >>


\* C16: weekday relocation.  The returned (s, e) is the candidate shifted by
\* a whole number k of days, the same for s and e, with k at most 7 (one
\* day per iteration of the loop); the returned s is on a valid weekday and
\* no earlier day from the candidate's on is valid; the time of day and the
\* length e - s are kept.
C16_WeekdayRelocation ==
    (pc = "next_range" /\ ret[1].ans # <<>>) =>
        LET w == t.time_range[1]
            s == ret[1].ans[1][1]
            e == ret[1].ans[1][2]
            rs == ret[1].returned[1][1]
            re == ret[1].returned[1][2]
            k == (rs - s) \div Days(1)
        IN  /\ rs = s + k * Days(1)
            /\ re = e + k * Days(1)
            /\ k >= 0 /\ k <= 7
            /\ weekday(rs) \in w.valid_weekdays
            /\ \A j \in 0..(k - 1) : weekday(s + j * Days(1)) \notin w.valid_weekdays
            /\ time(rs) = time(s)
            /\ re - rs = e - s

\* C16 witness: a candidate moved forward by five days or more
C16_Witness ==
    /\ pc = "next_range"
    /\ ret[1].ans # <<>>
    /\ ret[1].returned[1][1] >= ret[1].ans[1][1] + Days(5)


----------------------------------------------------------------------------
(* BreakIterator on its own, as in tests::break_iter_test *)

\* t.start holds the anchor the iterator was built with
InitBreak ==
    /\ \E a \in 0..(Days(2) - 1) :
           /\ t = RobotWorkTime_new(a, a, <<>>)
           /\ break_iter = [start |-> a,
                            work_duration |-> Hours(8),
                            rest_duration |-> Hours(1)]
    /\ pc = "break"
    /\ cur = <<0, <<>>>>
    /\ end = 0
    /\ time_ranges_iter = [cur |-> <<0, 0>>, time_ranges |-> <<>>]
    /\ breaking = <<>>
    /\ is_finish = FALSE
    /\ out = <<>>
    /\ ret = <<>>

\* a call of BreakIterator::next; out collects the items returned
pull_break ==
    /\ pc = "break"
    /\ Len(out) < MaxPulls
    /\ \E r \in {BreakIterator_next(break_iter)} :
           /\ break_iter' = r.it
           /\ ret' = <<r.item>>
           /\ out' = Append(out, r.item)
    /\ UNCHANGED <<t, pc, cur, end, time_ranges_iter, breaking, is_finish>>

SpecBreak == InitBreak /\ [][pull_break]_vars

\* C17: from anchor a, pull number k (k = 0, 1, ...) returns
\* (a + 8h + k*9h, a + 9h + k*9h) and leaves the cursor at a + (k+1)*9h;
\* every pull returns an item; the items increase strictly and each rest
\* starts strictly after the previous rest's end.
C17_BreakSequence ==
    pc = "break" =>
        /\ \A k \in 0..(Len(out) - 1) :
               out[k + 1] = <<t.start + Hours(8) + k * Hours(9),
                              t.start + Hours(9) + k * Hours(9)>>
        /\ break_iter.start = t.start + Len(out) * Hours(9)
        /\ (out # <<>>) => ret = <<out[Len(out)]>>
        /\ \A i \in 1..Len(out) : out[i][1] < out[i][2]
        /\ \A i \in 1..(Len(out) - 1) :
               out[i][1] < out[i + 1][1] /\ out[i][2] < out[i + 1][1]

\* C17 witness: three pulls, as in tests::break_iter_test
C17_Witness ==
    /\ pc = "break"
    /\ Len(out) = 3
    /\ out[3] = <<t.start + Hours(26), t.start + Hours(27)>>


----------------------------------------------------------------------------
(* TimeRangesIterator on its own, as in tests::time_seg_iter_test *)

\* t.start is the start handed to TimeRangesIterator::new and t.time_range
\* the windows; the windows partition the week
InitRanges ==
    /\ \E s \in 0..(Days(7) - 1) : \E sch \in Schemes :
           t = RobotWorkTime_new(s, s, sch)
    /\ pc = "ranges_new"
    /\ cur = <<0, <<>>>>
    /\ end = 0
    /\ time_ranges_iter = [cur |-> <<0, 0>>, time_ranges |-> <<>>]
    /\ break_iter = [start |-> 0, work_duration |-> 0, rest_duration |-> 0]
    /\ breaking = <<>>
    /\ is_finish = FALSE
    /\ out = <<>>
    /\ ret = <<>>

\* TimeRangesIterator::new(start, time_ranges).unwrap()
ranges_new ==
    /\ pc = "ranges_new"
    /\ \E made \in {TimeRangesIterator_new(t.start, t.time_range)} :
           IF made = <<>>
           THEN /\ pc' = "panic"
                /\ UNCHANGED time_ranges_iter
           ELSE /\ pc' = "ranges"
                /\ time_ranges_iter' = made[1]
    /\ UNCHANGED <<t, cur, end, break_iter, breaking, is_finish, out, ret>>

\* a call of TimeRangesIterator::next; out collects the items returned
pull_ranges ==
    /\ pc = "ranges"
    /\ Len(out) < MaxPulls
    /\ \E r \in {TimeRangesIterator_next(time_ranges_iter)} :
           IF r = <<>>
           THEN /\ pc' = "panic"
                /\ UNCHANGED <<time_ranges_iter, out, ret>>
           ELSE /\ pc' = pc
                /\ time_ranges_iter' = r[1].it
                /\ ret' = <<r[1].item>>
                /\ out' = Append(out, r[1].item)
    /\ UNCHANGED <<t, cur, end, break_iter, breaking, is_finish>>

NextRanges == ranges_new \/ pull_ranges

SpecRanges == InitRanges /\ [][NextRanges]_vars

\* C18: for windows that partition the week and any start, construction and
\* every pull succeed; the emitted instants increase strictly; the first
\* emission is (start, index of the window containing start); every emitted
\* index is the one window that contains the emitted instant; and between two
\* consecutive emissions (t_k, i_k), (t_k+1, i_k+1) window i_k contains every
\* instant of [t_k, t_k+1).  The pending cursor obeys the same rules.
C18_RangesTrack ==
    pc \in {"ranges_new", "ranges"} /\
    (pc = "ranges" =>
        LET track == Append(out, time_ranges_iter.cur)
            holds(x) == {i \in 0..(Len(t.time_range) - 1) :
                             contains(t.time_range[i + 1], x)}
        IN  /\ track[1][1] = t.start
            /\ (out # <<>>) => ret = <<out[Len(out)]>>
            /\ \A k \in 1..Len(track) : holds(track[k][1]) = {track[k][2]}
            /\ \A k \in 1..(Len(track) - 1) :
                   /\ track[k][1] < track[k + 1][1]
                   /\ \A x \in track[k][1]..(track[k + 1][1] - 1) :
                          holds(x) = {track[k][2]})

\* C18 witness: a track that has crossed from one window into another and
\* then through a midnight inside a wrapping window
C18_Witness ==
    /\ pc = "ranges"
    /\ Len(out) >= 3
    /\ \E k \in 1..(Len(out) - 2) :
           /\ out[k][2] # out[k + 1][2]
           /\ out[k + 1][2] = out[k + 2][2]
           /\ time(out[k + 2][1]) = 0


----------------------------------------------------------------------------
(* Both iterators: the labels of consecutive elements *)

\* an activity that starts on a Saturday and can run into the Sunday, the
\* last night of tests::robot_work_time_iter_test_start_early
InitWeekend ==
    /\ \E o \in 0..MaxStartOffset : \E span \in 0..MaxSpan : \E sch \in Schemes :
           t = RobotWorkTime_new(and_time(Sat, Hours(14) + o),
                                 and_time(Sat, Hours(14) + o) + span, sch)
    /\ pc = "new"
    /\ cur = <<0, <<>>>>
    /\ end = 0
    /\ time_ranges_iter = [cur |-> <<0, 0>>, time_ranges |-> <<>>]
    /\ break_iter = [start |-> 0, work_duration |-> 0, rest_duration |-> 0]
    /\ breaking = <<>>
    /\ is_finish = FALSE
    /\ out = <<>>
    /\ ret = <<>>

InitIterators == Init \/ InitWeekend \/ InitRanges

NextIterators == Next \/ NextRanges

SpecIterators == InitIterators /\ [][NextIterators]_vars

\* window idx wraps past midnight
wraps(idx) == ~(t.time_range[idx + 1].start < t.time_range[idx + 1].end)

----------------------------------------------------------------------------
(* The labels of Resting and Finished elements *)

\* C20 as stated: the label of the final (end, Finished) element differs
\* from the label of every (rest_start, Resting) element.
C20_FinishedLabelDistinct ==
    Done => \A i \in RestIdx : out[i][2] # out[Len(out)][2]

\* C20 amended: Resting and Finished carry the same label, None.  The call
\* made with a rest pending returns (rest_start, None) with rest_start
\* strictly before end and leaves the iterator unfinished; the finishing
\* call returns (end, None) and sets is_finish; every other label is
\* Some(index of a window).  The Finished element is told from a Resting
\* one by its instant (end) and by being the last, not by its label.
C20_RestingAndFinishedShareNone ==
    /\ [][(pc = "iter" /\ ~is_finish /\ ~reached_end(cur[1], end)
              /\ breaking # <<>> /\ pc' = "iter") =>
             /\ ret' = <<cur>>
             /\ cur[2] = <<>>
             /\ cur[1] < end
             /\ ~is_finish']_vars
    /\ [][(pc = "iter" /\ ~is_finish /\ reached_end(cur[1], end)) =>
             /\ ret' = << <<end, <<>>>> >>
             /\ is_finish']_vars
    /\ [](pc = "iter" =>
             /\ \A i \in 1..Len(out) :
                    out[i][2] # <<>> => out[i][2][1] \in 0..(Len(t.time_range) - 1)
             /\ \A i \in RestIdx : out[i][1] < end
             /\ is_finish => out[Len(out)] = <<end, <<>>>>)

\* C20 witness: a finished run that held a Resting element, whose label
\* equals the label of the Finished element
C20_Witness ==
    /\ Done
    /\ RestIdx # {}
    /\ \A i \in RestIdx : out[i][2] = out[Len(out)][2] /\ out[i][1] < out[Len(out)][1]


----------------------------------------------------------------------------
(* What one call of RobotWorkTimeIterator::next changes *)

\* time_ranges_iter after one call of its next
advanced(it) == TimeRangesIterator_next(it)[1].it

\* C21: a call that returns without panicking leaves end alone.  With no
\* rest pending it moves exactly one of the two sub-iterators by exactly one
\* element: the rate timeline when it queues a transition, the rest
\* generator when it queues a rest, and the other one stays.  A call that
\* ends a rest leaves the rest generator alone and moves the rate timeline
\* by at most one element.  The finishing call and every later call change
\* neither sub-iterator.
C21_StepFrame ==
    /\ [](pc = "iter" => end = t.end)
    /\ [][(pc = "iter" /\ pc' = "iter") =>
             /\ end' = end
             /\ (is_finish \/ reached_end(cur[1], end)) =>
                    UNCHANGED <<time_ranges_iter, break_iter>>
             /\ (~is_finish /\ ~reached_end(cur[1], end) /\ breaking # <<>>) =>
                    /\ break_iter' = break_iter
                    /\ time_ranges_iter' \in {time_ranges_iter, advanced(time_ranges_iter)}
             /\ (~is_finish /\ ~reached_end(cur[1], end) /\ breaking = <<>>) =>
                    \/ /\ cur'[2] # <<>>
                       /\ time_ranges_iter' = advanced(time_ranges_iter)
                       /\ time_ranges_iter'.cur[1] > time_ranges_iter.cur[1]
                       /\ break_iter' = break_iter
                    \/ /\ cur'[2] = <<>>
                       /\ time_ranges_iter' = time_ranges_iter
                       /\ break_iter' = BreakIterator_next(break_iter).it
                       /\ break_iter'.start = break_iter.start + Hours(9)]_vars

\* C21 witness: a finished run in which a transition was queued, a rest was
\* entered and ended, and the rest generator moved exactly once per rest
C21_Witness ==
    /\ Done
    /\ RestIdx # {}
    /\ \E i \in 2..Len(out) : IsTransitionElement(i)
    /\ \E i \in RestIdx : i + 1 < Len(out)
    /\ break_iter.start = t.start + Cardinality(RestIdx) * Hours(9)


----------------------------------------------------------------------------
(* Failures and the span of the activity *)

\* every instant of [start, end] is contained in exactly one window
SpanCovered ==
    \A x \in t.start..t.end :
        Cardinality({i \in 1..Len(t.time_range) : contains(t.time_range[i], x)}) = 1

\* C22: if end is not before start and every instant of [start, end] is
\* contained in exactly one rate window, then constructing the iterator and
\* pulling it never fails, whatever the windows leave uncovered after end.
C22_NoFailureInsideSpan ==
    (t.start <= t.end /\ SpanCovered) => pc # "panic"


----------------------------------------------------------------------------
(* The pending-rest record *)

\* C23: in every state of the iterator before Finished, a pending-rest
\* record is present exactly when the pending element is labelled Resting
\* (None); the label the record stores for the resumption is the index of a
\* window.  So a Resting element is never directly followed by another
\* Resting element: the element after it is at rest_end with a window label,
\* unless it is the Finished element.
C23_PendingRestRecord ==
    pc = "iter" =>
        /\ ~is_finish =>
               /\ (breaking # <<>>) <=> (cur[2] = <<>>)
               /\ breaking # <<>> =>
                      /\ breaking[1][2] # <<>>
                      /\ breaking[1][2][1] \in 0..(Len(t.time_range) - 1)
                      /\ breaking[1][1] = cur[1] + Hours(1)
        /\ \A i \in RestIdx :
               i < Len(out) =>
                   \/ /\ out[i + 1][2] # <<>>
                      /\ out[i + 1][1] = out[i][1] + Hours(1)
                   \/ /\ i + 1 = Len(out)
                      /\ is_finish

\* C23 witness: a rest has been returned and ended, and the pending element
\* is the resumption at rest_end with a window label
C23_Witness ==
    /\ pc = "iter"
    /\ ~is_finish
    /\ breaking = <<>>
    /\ Len(out) \in RestIdx
    /\ cur[2] # <<>>
    /\ cur[1] = out[Len(out)][1] + Hours(1)

====
